---- MODULE Spec2Model ----
(***************************************************************************)
(* Query decomposition, fan-out answering with bounded retry, and          *)
(* recombination, as written in 15-FastAPI-API.ipynb (cells "Query         *)
(* decomposition" .. "final_rag_chain").                                    *)
(*                                                                         *)
(* Text is a sequence of one-character tokens; the fixed words of the      *)
(* f-string in format_qa_pairs ("Question", "Answer") and the sentinel     *)
(* text are single tokens, so that they can never be confused with the     *)
(* characters of a question or of an answer.                               *)
(***************************************************************************)
EXTENDS Integers, Sequences, FiniteSets, TLC

\* ------------------------------------------------------------- bounds
\* Longest raw text the decomposition LLM returns, in characters.
MaxRawLen == 3

\* Most rag_agent calls of one run that fail to return.
MaxTimeouts == 1

\* Most events one /stream response carries.
MaxEvents == 3

\* ------------------------------------------------------------- texts
Chars == {"a", "b", " ", "\n"}

RECURSIVE TextsUpTo(_)
TextsUpTo(n) ==
    IF n = 0 THEN {<< >>}
    ELSE LET shorter == TextsUpTo(n - 1)
         IN  shorter \cup {Append(t, c) : t \in {s \in shorter : Len(s) = n - 1}, c \in Chars}

\* Every text the chain prompt | llm_with_tools | StrOutputParser() can yield.
RawTexts == TextsUpTo(MaxRawLen)

\* Texts the user may ask (the notebook fixes one literal).
Questions == {<<"q">>, <<"q", " ", "r">>}

\* Texts rag_agent may return when it does not raise.
AnswerTexts == {<<"x">>, <<"y">>}

\* Texts final_rag_chain may return when it does not raise.
FinalTexts == {<<"f">>}

\* The literal assigned in the except branch: "No response found."
Sentinel == <<"No response found.">>

\* A Python name that has not been assigned yet.
Unbound == <<"<unbound>">>

\* A retry budget one larger than the source's.
AttemptsOneMore == 2 + 1

\* range(2)
Attempts == 2

\* ------------------------------------------------------------- str.split("\n")
\* A split that drops empty pieces, as str.split() without a separator does.
RECURSIVE SplitDroppingEmpty(_)
SplitDroppingEmpty(s) ==
    IF s = << >> THEN << >>
    ELSE IF \A p \in 1..Len(s) : s[p] # "\n"
    THEN <<s>>
    ELSE LET p == CHOOSE p \in 1..Len(s) :
                      s[p] = "\n" /\ \A r \in 1..(p - 1) : s[r] # "\n"
         IN  (IF p = 1 THEN << >> ELSE <<SubSeq(s, 1, p - 1)>>)
                 \o SplitDroppingEmpty(SubSeq(s, p + 1, Len(s)))

\* x.split("\n"): the pieces between line breaks, empty pieces kept, so the
\* result is never the empty list and "" gives [""].
RECURSIVE Split(_)
Split(s) ==
    IF \A p \in 1..Len(s) : s[p] # "\n"
    THEN <<s>>
    ELSE LET p == CHOOSE p \in 1..Len(s) :
                      s[p] = "\n" /\ \A r \in 1..(p - 1) : s[r] # "\n"
         IN  <<SubSeq(s, 1, p - 1)>> \o Split(SubSeq(s, p + 1, Len(s)))

\* A chain that trims every line it returns.
QueryAnalyzerTrimmed(text) ==
    [n \in 1..Len(Split(text)) |-> LET line == Split(text)[n]
                                   IN  IF \A p \in 1..Len(line) : line[p] \in {" ", "\n"}
                                       THEN << >>
                                       ELSE line]

\* query_analyzer = prompt | llm_with_tools | StrOutputParser() | (lambda x: x.split("\n"))
query_analyzer(text) == Split(text)

\* A fallback that tests for the empty list instead of [""].
FallbackOnEmptyList(subqs, question) ==
    IF subqs = << >> THEN <<question>> ELSE subqs

\* if sub_questions == [""]: sub_questions = [original_question]
Fallback(subqs, question) ==
    IF subqs = << << >> >> THEN <<question>> ELSE subqs

\* ------------------------------------------------------------- str.strip()
IsSpace(c) == c \in {" ", "\n"}

RECURSIVE LStrip(_)
LStrip(s) ==
    IF s # << >> /\ IsSpace(Head(s)) THEN LStrip(Tail(s)) ELSE s

RECURSIVE RStrip(_)
RStrip(s) ==
    IF s # << >> /\ IsSpace(s[Len(s)]) THEN RStrip(SubSeq(s, 1, Len(s) - 1)) ELSE s

Strip(s) == LStrip(RStrip(s))

\* ------------------------------------------------------------- format_qa_pairs
\* str(i) for the indices the model can reach.
NumStr(n) == <<"1", "2", "3", "4", "5", "6", "7", "8", "9">>[n]

Min(a, b) == IF a <= b THEN a ELSE b

\* zip(questions, answers): stops at the shorter of the two.
Zip(questions, answers) ==
    [n \in 1..Min(Len(questions), Len(answers)) |->
        [question |-> questions[n], answer |-> answers[n]]]

\* f"Question {i}: {question}\nAnswer {i}: {answer}\n\n"
PairText(n, question, answer) ==
    <<"Question", " ", NumStr(n), ":", " ">> \o question \o
    <<"\n", "Answer", " ", NumStr(n), ":", " ">> \o answer \o <<"\n", "\n">>

RECURSIVE Formatted(_, _)
Formatted(pairs, n) ==
    IF n = 0 THEN << >>
    ELSE Formatted(pairs, n - 1) \o PairText(n, pairs[n].question, pairs[n].answer)

format_qa_pairs(questions, answers) ==
    LET pairs == Zip(questions, answers)
    IN  Strip(Formatted(pairs, Len(pairs)))

\* ------------------------------------------------------------- state
VARIABLES
    pc,                \* the statement about to run
    original_question, \* the user's question
    raw,               \* the text the decomposition LLM returned
    sub_questions,     \* the list of sub-questions
    i,                 \* enumerate(sub_questions, start=1) index
    sub_question,      \* loop variable of the outer for
    k,                 \* range(2) index of the attempt about to run
    sub_response,      \* the shared variable assigned in try and in except
    rag_results,       \* the results collection
    context,           \* format_qa_pairs(sub_questions, rag_results)
    final_response,    \* final_rag_chain.invoke(...)
    error,             \* the statement whose exception propagated, "" if none
    calls,             \* history: every rag_agent call, in order
    obtained,          \* history: sub_response when each inner loop was left
    llm_calls,         \* history: every call of query_analyzer and final_rag_chain
    timeouts,          \* history: how many rag_agent calls were cut off
    spc,               \* call_stream: the statement about to run
    events,            \* call_stream: the events client.events() yields, in order
    pos,               \* call_stream: how many events the for loop has taken
    handled,           \* call_stream history: the branch taken for each event
    emitted            \* call_stream history: the arguments of process_partial_text

\* The names of call_stream, which the workflow cells never touch.
streamvars == <<spc, events, pos, handled, emitted>>

\* The names of the workflow cells, which call_stream never touches.
flowvars == <<pc, original_question, raw, sub_questions, i, sub_question, k,
              sub_response, rag_results, context, final_response, error, calls,
              obtained, llm_calls, timeouts>>

vars == <<flowvars, streamvars>>

\* original_question is set; every other name is still unassigned. rag_results
\* is [] from the statement that precedes the fan-out loop, and nothing reads
\* or writes it before.
Init ==
    /\ pc = "decompose"
    /\ original_question \in Questions
    /\ raw = Unbound
    /\ sub_questions = << >>
    /\ i = 0
    /\ sub_question = Unbound
    /\ k = 0
    /\ sub_response = Unbound
    /\ rag_results = << >>
    /\ context = Unbound
    /\ final_response = Unbound
    /\ error = ""
    /\ calls = << >>
    /\ obtained = << >>
    /\ llm_calls = << >>
    /\ timeouts = 0
    /\ spc = "idle"
    /\ events = << >>
    /\ pos = 0
    /\ handled = << >>
    /\ emitted = << >>

\* sub_questions = query_analyzer.invoke({"question": original_question})
Decompose(text) ==
    /\ pc = "decompose"
    /\ raw' = text
    /\ sub_questions' = query_analyzer(text)
    /\ pc' = "fallback"
    /\ UNCHANGED <<original_question, i, sub_question, k, sub_response,
                   rag_results, context, final_response, error, calls, obtained>>
    /\ llm_calls' = Append(llm_calls, [chain |-> "query_analyzer", ok |-> TRUE])
    /\ UNCHANGED <<timeouts, streamvars>>

\* A decomposition that is called a second time after a first failure.
DecomposeFailRetried ==
    /\ pc = "decompose"
    /\ llm_calls' = Append(llm_calls, [chain |-> "query_analyzer", ok |-> FALSE])
    /\ IF llm_calls = << >>
       THEN UNCHANGED <<pc, error>>
       ELSE pc' = "raised" /\ error' = "decompose"
    /\ UNCHANGED <<original_question, raw, sub_questions, i, sub_question, k,
                   sub_response, rag_results, context, final_response, calls,
                   obtained, timeouts, streamvars>>

\* the same call, the LLM raising: nothing catches it
DecomposeFail ==
    /\ pc = "decompose"
    /\ pc' = "raised"
    /\ error' = "decompose"
    /\ UNCHANGED <<original_question, raw, sub_questions, i, sub_question, k,
                   sub_response, rag_results, context, final_response, calls,
                   obtained>>
    /\ llm_calls' = Append(llm_calls, [chain |-> "query_analyzer", ok |-> FALSE])
    /\ UNCHANGED <<timeouts, streamvars>>

\* if sub_questions == [""]: ... else: ...
FallbackStep ==
    /\ pc = "fallback"
    /\ sub_questions' = Fallback(sub_questions, original_question)
    /\ pc' = "for"
    /\ UNCHANGED <<original_question, raw, i, sub_question, k, sub_response,
                   rag_results, context, final_response, error, calls, obtained>>
    /\ UNCHANGED <<llm_calls, timeouts, streamvars>>

\* for i, sub_question in enumerate(sub_questions, start=1): next item,
\* and for k in range(2): first value
ForNext ==
    /\ pc = "for"
    /\ i < Len(sub_questions)
    /\ i' = i + 1
    /\ sub_question' = sub_questions[i + 1]
    /\ k' = 0
    /\ pc' = IF 0 < Attempts THEN "try" ELSE "for"
    /\ obtained' = IF 0 < Attempts THEN obtained ELSE Append(obtained, sub_response)
    /\ UNCHANGED <<original_question, raw, sub_questions, sub_response,
                   rag_results, context, final_response, error, calls>>
    /\ UNCHANGED <<llm_calls, timeouts, streamvars>>

\* the outer for is exhausted
ForEnd ==
    /\ pc = "for"
    /\ i >= Len(sub_questions)
    /\ pc' = "append"
    /\ UNCHANGED <<original_question, raw, sub_questions, i, sub_question, k,
                   sub_response, rag_results, context, final_response, error,
                   calls, obtained>>
    /\ UNCHANGED <<llm_calls, timeouts, streamvars>>

\* The try branch without its break: the next attempt still runs.
RagSucceedNoBreak(text) ==
    /\ pc = "try"
    /\ calls' = Append(calls, [i |-> i, k |-> k, q |-> sub_question, ok |-> TRUE, text |-> text])
    /\ sub_response' = text
    /\ k' = k + 1
    /\ pc' = IF k + 1 < Attempts THEN "try" ELSE "for"
    /\ obtained' = IF k + 1 < Attempts THEN obtained ELSE Append(obtained, text)
    /\ UNCHANGED <<original_question, raw, sub_questions, i, sub_question,
                   rag_results, context, final_response, error>>
    /\ UNCHANGED <<llm_calls, timeouts, streamvars>>

\* try: sub_response = rag_agent(sub_question); break
RagSucceed(text) ==
    /\ pc = "try"
    /\ calls' = Append(calls, [i |-> i, k |-> k, q |-> sub_question, ok |-> TRUE, text |-> text])
    /\ sub_response' = text
    /\ pc' = "for"
    /\ obtained' = Append(obtained, text)
    /\ UNCHANGED <<original_question, raw, sub_questions, i, sub_question, k,
                   rag_results, context, final_response, error>>
    /\ UNCHANGED <<llm_calls, timeouts, streamvars>>

\* An except branch that re-raises once the last attempt has failed.
RagFailPropagates ==
    /\ pc = "try"
    /\ calls' = Append(calls, [i |-> i, k |-> k, q |-> sub_question, ok |-> FALSE, text |-> Unbound])
    /\ IF k + 1 < Attempts
       THEN /\ sub_response' = Sentinel
            /\ k' = k + 1
            /\ pc' = "try"
            /\ UNCHANGED error
       ELSE /\ pc' = "raised"
            /\ error' = "fanout"
            /\ UNCHANGED <<sub_response, k>>
    /\ UNCHANGED <<original_question, raw, sub_questions, i, sub_question,
                   rag_results, context, final_response, obtained>>
    /\ UNCHANGED <<llm_calls, timeouts, streamvars>>

\* An except branch that leaves the retry loop instead of continuing it.
RagFailGivesUp ==
    /\ pc = "try"
    /\ calls' = Append(calls, [i |-> i, k |-> k, q |-> sub_question, ok |-> FALSE, text |-> Unbound])
    /\ sub_response' = Sentinel
    /\ pc' = "for"
    /\ obtained' = Append(obtained, Sentinel)
    /\ UNCHANGED <<original_question, raw, sub_questions, i, sub_question, k,
                   rag_results, context, final_response, error>>
    /\ UNCHANGED <<llm_calls, timeouts, streamvars>>

\* An except branch that does not assign the sentinel.
RagFailKeepsResponse ==
    /\ pc = "try"
    /\ calls' = Append(calls, [i |-> i, k |-> k, q |-> sub_question, ok |-> FALSE, text |-> Unbound])
    /\ k' = k + 1
    /\ pc' = IF k + 1 < Attempts THEN "try" ELSE "for"
    /\ obtained' = IF k + 1 < Attempts THEN obtained ELSE Append(obtained, sub_response)
    /\ UNCHANGED <<original_question, raw, sub_questions, i, sub_question,
                   sub_response, rag_results, context, final_response, error>>
    /\ UNCHANGED <<llm_calls, timeouts, streamvars>>

\* rag_agent raises; except Exception as e: sub_response = "No response found."; continue
RagFail ==
    /\ pc = "try"
    /\ calls' = Append(calls, [i |-> i, k |-> k, q |-> sub_question, ok |-> FALSE, text |-> Unbound])
    /\ sub_response' = Sentinel
    /\ k' = k + 1
    /\ pc' = IF k + 1 < Attempts THEN "try" ELSE "for"
    /\ obtained' = IF k + 1 < Attempts THEN obtained ELSE Append(obtained, Sentinel)
    /\ UNCHANGED <<original_question, raw, sub_questions, i, sub_question,
                   rag_results, context, final_response, error>>
    /\ UNCHANGED <<llm_calls, timeouts, streamvars>>

\* An append that stores the answer of every sub-question.
AppendEveryAnswer ==
    /\ pc = "append"
    /\ rag_results' = rag_results \o obtained
    /\ pc' = "format"
    /\ UNCHANGED <<original_question, raw, sub_questions, i, sub_question, k,
                   sub_response, context, final_response, error, calls, obtained>>
    /\ UNCHANGED <<llm_calls, timeouts, streamvars>>

\* rag_results.append(sub_response), at module level after the outer for
AppendResult ==
    /\ pc = "append"
    /\ IF sub_response = Unbound
       THEN /\ pc' = "raised"
            /\ error' = "append"
            /\ UNCHANGED rag_results
       ELSE /\ rag_results' = Append(rag_results, sub_response)
            /\ pc' = "format"
            /\ UNCHANGED error
    /\ UNCHANGED <<original_question, raw, sub_questions, i, sub_question, k,
                   sub_response, context, final_response, calls, obtained>>
    /\ UNCHANGED <<llm_calls, timeouts, streamvars>>

\* context = format_qa_pairs(sub_questions, rag_results)
Format ==
    /\ pc = "format"
    /\ context' = format_qa_pairs(sub_questions, rag_results)
    /\ pc' = "synth"
    /\ UNCHANGED <<original_question, raw, sub_questions, i, sub_question, k,
                   sub_response, rag_results, final_response, error, calls,
                   obtained>>
    /\ UNCHANGED <<llm_calls, timeouts, streamvars>>

\* final_response = final_rag_chain.invoke({"context": context, "question": original_question})
Synthesize(text) ==
    /\ pc = "synth"
    /\ final_response' = text
    /\ pc' = "done"
    /\ UNCHANGED <<original_question, raw, sub_questions, i, sub_question, k,
                   sub_response, rag_results, context, error, calls, obtained>>
    /\ llm_calls' = Append(llm_calls, [chain |-> "final_rag_chain", ok |-> TRUE])
    /\ UNCHANGED <<timeouts, streamvars>>

\* the same call, the LLM raising: nothing catches it
SynthesizeFail ==
    /\ pc = "synth"
    /\ pc' = "raised"
    /\ error' = "synth"
    /\ UNCHANGED <<original_question, raw, sub_questions, i, sub_question, k,
                   sub_response, rag_results, context, final_response, calls,
                   obtained>>
    /\ llm_calls' = Append(llm_calls, [chain |-> "final_rag_chain", ok |-> FALSE])
    /\ UNCHANGED <<timeouts, streamvars>>

Next ==
    \/ \E text \in RawTexts : Decompose(text)
    \/ DecomposeFail
    \/ FallbackStep
    \/ ForNext
    \/ ForEnd
    \/ \E text \in AnswerTexts : RagSucceed(text)
    \/ RagFail
    \/ AppendResult
    \/ Format
    \/ \E text \in FinalTexts : Synthesize(text)
    \/ SynthesizeFail

Spec == Init /\ [][Next]_vars

\* rag_agent(sub_question) is entered and does not return.
RagHang ==
    /\ pc = "try"
    /\ timeouts < MaxTimeouts
    /\ pc' = "waiting"
    /\ UNCHANGED <<original_question, raw, sub_questions, i, sub_question, k,
                   sub_response, rag_results, context, final_response, error,
                   calls, obtained, llm_calls, timeouts, streamvars>>

\* The timeout that bounds the call cuts it off: the call raises, and the
\* except branch of the retry loop takes the exception like any other.
RagTimeout ==
    /\ pc = "waiting"
    /\ timeouts' = timeouts + 1
    /\ calls' = Append(calls, [i |-> i, k |-> k, q |-> sub_question, ok |-> FALSE, text |-> Unbound])
    /\ sub_response' = Sentinel
    /\ k' = k + 1
    /\ pc' = IF k + 1 < Attempts THEN "try" ELSE "for"
    /\ obtained' = IF k + 1 < Attempts THEN obtained ELSE Append(obtained, Sentinel)
    /\ UNCHANGED <<original_question, raw, sub_questions, i, sub_question,
                   rag_results, context, final_response, error, llm_calls,
                   streamvars>>

\* The workflow with an answer capability whose calls may fail to return.
NextWithTimeout ==
    \/ Next
    \/ RagHang
    \/ RagTimeout

TimeoutSpec == Init /\ [][NextWithTimeout]_vars

\* ------------------------------------------------------------- call_stream
\* Event names the server sends; "message" is one the if/elif chain does not know.
EventNames == {"metadata", "data", "on_tool_start", "on_tool_end", "end", "error", "message"}

\* Event payloads: a JSON object, and a text that is not JSON.
EventData == {"{}", "text"}

Events == [event : EventNames, data : EventData]

RECURSIVE EventSeqsUpTo(_)
EventSeqsUpTo(n) ==
    IF n = 0 THEN {<< >>}
    ELSE LET shorter == EventSeqsUpTo(n - 1)
         IN  shorter \cup {Append(t, e) : t \in {u \in shorter : Len(u) = n - 1}, e \in Events}

\* json.loads(evt_data) returns and info.get(...) can be called on the result.
JsonLoadsOk(data) == data = "{}"

\* The if/elif/else chain on evt_type: the branch that runs.
Branch(evt_type) ==
    IF evt_type = "metadata" THEN "metadata"
    ELSE IF evt_type = "data" THEN "data"
    ELSE IF evt_type = "on_tool_start" THEN "on_tool_start"
    ELSE IF evt_type = "on_tool_end" THEN "on_tool_end"
    ELSE IF evt_type = "end" THEN "end"
    ELSE IF evt_type = "error" THEN "error"
    ELSE "unrecognized"

\* call_stream is called and the server's response is still to come.
InitStream ==
    /\ pc = "decompose"
    /\ original_question \in Questions
    /\ raw = Unbound
    /\ sub_questions = << >>
    /\ i = 0
    /\ sub_question = Unbound
    /\ k = 0
    /\ sub_response = Unbound
    /\ rag_results = << >>
    /\ context = Unbound
    /\ final_response = Unbound
    /\ error = ""
    /\ calls = << >>
    /\ obtained = << >>
    /\ llm_calls = << >>
    /\ timeouts = 0
    /\ spc = "post"
    /\ events \in EventSeqsUpTo(MaxEvents)
    /\ pos = 0
    /\ handled = << >>
    /\ emitted = << >>

\* requests.post(url, json=payload, stream=True); resp.raise_for_status() returns;
\* client = SSEClient(resp)
StreamOpen ==
    /\ spc = "post"
    /\ spc' = "events"
    /\ UNCHANGED <<flowvars, events, pos, handled, emitted>>

\* requests.post or resp.raise_for_status() raises: no event is read
StreamHTTPError ==
    /\ spc = "post"
    /\ spc' = "http_error"
    /\ UNCHANGED <<flowvars, events, pos, handled, emitted>>

\* A loop body that leaves the loop after an end or an error event.
HandleEventStopsAtEnd ==
    /\ spc = "events"
    /\ pos < Len(events)
    /\ LET event    == events[pos + 1]
           evt_type == event.event
           evt_data == event.data
           branch   == Branch(evt_type)
       IN  /\ pos' = pos + 1
           /\ IF branch = "metadata" /\ ~JsonLoadsOk(evt_data)
              THEN /\ spc' = "raised"
                   /\ handled' = Append(handled, [n |-> pos + 1, branch |-> branch, printed |-> FALSE])
                   /\ UNCHANGED emitted
              ELSE /\ spc' = IF branch \in {"end", "error"} THEN "returned" ELSE "events"
                   /\ handled' = Append(handled, [n |-> pos + 1, branch |-> branch, printed |-> TRUE])
                   /\ emitted' = IF branch = "data" THEN Append(emitted, evt_data) ELSE emitted
    /\ UNCHANGED <<flowvars, events>>

\* for event in client.events(): one turn of the loop body
HandleEvent ==
    /\ spc = "events"
    /\ pos < Len(events)
    /\ LET event    == events[pos + 1]
           evt_type == event.event
           evt_data == event.data
           branch   == Branch(evt_type)
       IN  /\ pos' = pos + 1
           /\ IF branch = "metadata" /\ ~JsonLoadsOk(evt_data)
              THEN /\ spc' = "raised"
                   /\ handled' = Append(handled, [n |-> pos + 1, branch |-> branch, printed |-> FALSE])
                   /\ UNCHANGED emitted
              ELSE /\ spc' = "events"
                   /\ handled' = Append(handled, [n |-> pos + 1, branch |-> branch, printed |-> TRUE])
                   /\ emitted' = IF branch = "data" THEN Append(emitted, evt_data) ELSE emitted
    /\ UNCHANGED <<flowvars, events>>

\* client.events() is exhausted: the with block is left and call_stream returns
StreamEnd ==
    /\ spc = "events"
    /\ pos = Len(events)
    /\ spc' = "returned"
    /\ UNCHANGED <<flowvars, events, pos, handled, emitted>>

NextStream ==
    \/ StreamOpen
    \/ StreamHTTPError
    \/ HandleEvent
    \/ StreamEnd

SpecStream == InitStream /\ [][NextStream]_vars

\* The interpreter runs the next statement as soon as the previous one has
\* returned or raised, and every call modelled here returns or raises.
FairSpec == Spec /\ WF_vars(Next)

\* ------------------------------------------------------------- properties
\* Helpers of the properties below.
NSub == Len(sub_questions)

\* The outer for has been left.
LoopLeft == pc \in {"append", "format", "synth", "done"} \/ (pc = "raised" /\ error \in {"append", "synth"})

\* The fallback has run.
Decomposed == pc \in {"for", "try"} \/ LoopLeft

\* Positions in the call history of the calls made for sub-question n.
CallIdx(n) == {j \in 1..Len(calls) : calls[j].i = n}

\* The processing of sub-question n has ended.
Processed(n) == n <= Len(obtained)

FailedEveryAttempt(n) ==
    /\ Processed(n)
    /\ CallIdx(n) # {}
    /\ \A j \in CallIdx(n) : ~calls[j].ok

SucceededFirstTry(n) ==
    /\ Cardinality(CallIdx(n)) = 1
    /\ \A j \in CallIdx(n) : calls[j].ok

IsBlank(text) == \A p \in 1..Len(text) : IsSpace(text[p])

\* Reading a formatted context back: where the pairs start, which number each
\* carries, and the text of the pair numbered n.
Marks(ctx, label) == {p \in 1..Len(ctx) : ctx[p] = label}

PairPresent(ctx, n) == \E p \in Marks(ctx, "Question") : p + 2 <= Len(ctx) /\ ctx[p + 2] = NumStr(n)

PairAt(ctx, n) ==
    LET start == CHOOSE p \in Marks(ctx, "Question") : p + 2 <= Len(ctx) /\ ctx[p + 2] = NumStr(n)
        later == {p \in Marks(ctx, "Question") : p > start}
        stop  == IF later = {} THEN Len(ctx)
                 ELSE (CHOOSE p \in later : \A r \in later : p <= r) - 1
    IN  Strip(SubSeq(ctx, start, stop))

ExpectedPair(n, question, answer) == Strip(PairText(n, question, answer))

\* The numbers carried by the marks of a label, in the order they appear.
RECURSIVE NumbersFrom(_, _, _)
NumbersFrom(ctx, label, p) ==
    IF p > Len(ctx) THEN << >>
    ELSE IF ctx[p] = label /\ p + 2 <= Len(ctx)
         THEN <<ctx[p + 2]>> \o NumbersFrom(ctx, label, p + 1)
         ELSE NumbersFrom(ctx, label, p + 1)

OneToN(n) == [m \in 1..n |-> NumStr(m)]

\* C1: when the fan-out has finished, rag_results holds exactly one answer per
\* sub-question, in the order of the sub-questions.
C1_OneAnswerPerSubQuestion ==
    pc \in {"format", "synth", "done"} =>
        /\ Len(rag_results) = NSub
        /\ \A n \in 1..NSub : rag_results[n] = obtained[n]

\* C2: every pair numbered n of the context given to synthesis holds
\* sub-question n with the answer obtained for sub-question n.
C2_PairsAlignByIndex ==
    pc \in {"synth", "done"} =>
        \A n \in 1..NSub :
            PairPresent(context, n) =>
                PairAt(context, n) = ExpectedPair(n, sub_questions[n], obtained[n])

\* C3: a sub-question whose attempts all failed ends with the sentinel in
\* sub_response, no exception leaves the fan-out, and every following
\* sub-question is still attempted.
C3_ExhaustionYieldsSentinel ==
    /\ error # "fanout"
    /\ \A n \in 1..Len(obtained) : FailedEveryAttempt(n) => obtained[n] = Sentinel
    /\ (pc = "for" /\ i >= 1 /\ FailedEveryAttempt(i)) => sub_response = Sentinel
    /\ LoopLeft => \A n \in 1..NSub : CallIdx(n) # {}

C3_Witness ==
    /\ pc = "for"
    /\ i = 2
    /\ FailedEveryAttempt(1)
    /\ Cardinality(CallIdx(1)) = 2
    /\ obtained[1] = Sentinel
    /\ CallIdx(2) # {}

\* C4: the answer of a sub-question that had a successful attempt is the text
\* returned by its first successful attempt, also after an earlier failure.
C4_FirstSuccessIsAnswer ==
    /\ \A n \in 1..Len(obtained) :
          \A j \in CallIdx(n) :
              (calls[j].ok /\ \A r \in CallIdx(n) : r < j => ~calls[r].ok) =>
                  /\ obtained[n] = calls[j].text
                  /\ obtained[n] # Sentinel
    /\ (pc = "for" /\ i >= 1 /\ calls # << >> /\ calls[Len(calls)].ok) =>
          sub_response = calls[Len(calls)].text

C4_Witness ==
    /\ pc = "for"
    /\ i = 1
    /\ Len(calls) = 2
    /\ ~calls[1].ok
    /\ calls[2].ok
    /\ sub_response = calls[2].text
    /\ obtained = <<calls[2].text>>

\* C5: rag_agent is called once or twice per sub-question, a second time only
\* after a failed first call, and never after a successful call.
C5_AtMostTwoAttempts ==
    /\ \A n \in 1..NSub : Cardinality(CallIdx(n)) <= 2
    /\ \A n \in 1..Len(obtained) : Cardinality(CallIdx(n)) >= 1
    /\ \A j \in 1..Len(calls) :
          /\ calls[j].k \in {0, 1}
          /\ calls[j].k = 1 => (j > 1 /\ calls[j - 1].i = calls[j].i /\ ~calls[j - 1].ok)
    /\ \A j, r \in 1..Len(calls) :
          (j < r /\ calls[j].i = calls[r].i) => ~calls[j].ok

C5_Witness ==
    /\ LoopLeft
    /\ NSub = 2
    /\ Cardinality(CallIdx(1)) = 2
    /\ Cardinality(CallIdx(2)) = 1

\* C6: after decomposition and fallback there is at least one sub-question.
C6_AtLeastOneSubQuestion ==
    Decomposed => Len(sub_questions) >= 1

C6_Witness ==
    /\ pc = "for"
    /\ i = 0
    /\ raw = << >>
    /\ Len(sub_questions) = 1

\* C7 as stated: an empty or blank generation result (whitespace and/or line
\* breaks only) yields exactly [original_question].
C7_BlankYieldsOriginal ==
    (Decomposed /\ raw # Unbound /\ IsBlank(raw)) => sub_questions = <<original_question>>

\* C7 as amended: the empty generation result yields exactly
\* [original_question].
C7_EmptyYieldsOriginal ==
    (Decomposed /\ raw = << >>) => sub_questions = <<original_question>>

C7_Witness ==
    /\ pc = "for"
    /\ raw = << >>
    /\ sub_questions = <<original_question>>

\* C8: with every sub-question answered on its first attempt, the context
\* holds exactly NSub labelled pairs, numbered 1..NSub in order.
C8_AllPairsNumbered ==
    (pc \in {"synth", "done"} /\ \A n \in 1..NSub : SucceededFirstTry(n)) =>
        /\ NumbersFrom(context, "Question", 1) = OneToN(NSub)
        /\ NumbersFrom(context, "Answer", 1) = OneToN(NSub)

\* C9: the context given to synthesis holds the sentinel as the answer of
\* every sub-question whose attempts were all exhausted.
C9_SentinelsReachContext ==
    pc \in {"synth", "done"} =>
        \A n \in 1..NSub :
            FailedEveryAttempt(n) =>
                /\ PairPresent(context, n)
                /\ PairAt(context, n) = ExpectedPair(n, sub_questions[n], Sentinel)

\* C10: no context is produced from a sub-question sequence and an answer
\* sequence of different lengths.
C10_NoContextOnLengthMismatch ==
    context # Unbound => Len(sub_questions) = Len(rag_results)

\* C14: after the fan-out loop rag_results holds exactly one element, the
\* answer (or sentinel) of the last sub-question.
C14_OnlyLastAnswerKept ==
    pc \in {"format", "synth", "done"} =>
        /\ Len(rag_results) = 1
        /\ Len(obtained) = NSub
        /\ rag_results[1] = obtained[NSub]

C14_Witness ==
    /\ pc = "format"
    /\ NSub = 3
    /\ obtained = << <<"x">>, Sentinel, <<"y">> >>
    /\ rag_results = << <<"y">> >>

\* The lines of a list joined by single line breaks.
RECURSIVE JoinLines(_)
JoinLines(lines) ==
    IF lines = << >> THEN << >>
    ELSE IF Len(lines) = 1 THEN lines[1]
    ELSE lines[1] \o <<"\n">> \o JoinLines(Tail(lines))

\* C15: a non-empty generation output becomes exactly its lines: no line holds
\* a line break, and the lines joined by line breaks give the output back, so
\* none is removed, trimmed or reordered.
C15_LinesVerbatim ==
    (Decomposed /\ raw # Unbound /\ raw # << >>) =>
        /\ \A n \in 1..NSub : \A p \in 1..Len(sub_questions[n]) : sub_questions[n][p] # "\n"
        /\ JoinLines(sub_questions) = raw
        /\ NSub = Cardinality({p \in 1..Len(raw) : raw[p] = "\n"}) + 1

C15_Witness ==
    /\ pc = "for"
    /\ raw = <<"\n", " ", "\n">>
    /\ sub_questions = << << >>, <<" ">>, << >> >>

\* C16: the calls come in the order of the sub-questions, and the first call
\* for the next sub-question comes only after the previous one has succeeded
\* or has had its two attempts.
C16_StrictlySequential ==
    /\ calls # << >> => (calls[1].i = 1 /\ calls[1].k = 0)
    /\ \A j \in 1..Len(calls) : calls[j].q = sub_questions[calls[j].i]
    /\ \A j \in 2..Len(calls) :
          \/ /\ calls[j].i = calls[j - 1].i
             /\ calls[j].k = calls[j - 1].k + 1
          \/ /\ calls[j].i = calls[j - 1].i + 1
             /\ calls[j].k = 0
             /\ \/ calls[j - 1].ok
                \/ Cardinality(CallIdx(calls[j - 1].i)) = 2

C16_Witness ==
    /\ Len(calls) = 4
    /\ calls[1].i = 1 /\ ~calls[1].ok
    /\ calls[2].i = 1 /\ ~calls[2].ok
    /\ calls[3].i = 2 /\ calls[3].ok
    /\ calls[4].i = 3

\* C17: when the processing of sub-question i ends, sub_response is the text
\* of a successful attempt on sub-question i, or the sentinel after attempts
\* on sub-question i that all failed; it is never a value left by an earlier
\* sub-question.
C17_NoCarryOver ==
    (pc = "for" /\ i >= 1) =>
        /\ CallIdx(i) # {}
        /\ \/ \E j \in CallIdx(i) : calls[j].ok /\ calls[j].text = sub_response
           \/ /\ sub_response = Sentinel
              /\ \A j \in CallIdx(i) : ~calls[j].ok

C17_Witness ==
    /\ pc = "for"
    /\ i = 2
    /\ obtained = << <<"x">>, Sentinel >>
    /\ sub_response = Sentinel
    /\ \A j \in CallIdx(2) : ~calls[j].ok

\* How many times a chain has been invoked.
ChainCalls(chain) == Cardinality({j \in 1..Len(llm_calls) : llm_calls[j].chain = chain})

\* How far the run has come: the cell it is in, and inside the fan-out loop
\* the sub-questions taken and the calls made.
Stage ==
    CASE pc = "decompose" -> 0
      [] pc = "fallback" -> 1
      [] pc \in {"for", "try", "waiting"} -> 2
      [] pc = "append" -> 3
      [] pc = "format" -> 4
      [] pc = "synth" -> 5
      [] pc \in {"done", "raised"} -> 6

LoopRank == i + 2 * Len(calls) + (IF pc = "waiting" THEN 1 ELSE 0)

\* Decomposition has succeeded and the synthesis call has not been made yet.
BeforeSynthesis == pc \in {"fallback", "for", "try", "waiting", "append", "format", "synth"}

\* The statement the run is at can be executed.
CanStep ==
    CASE pc = "fallback" -> ENABLED FallbackStep
      [] pc = "for" -> ENABLED ForNext \/ ENABLED ForEnd
      [] pc = "try" -> ENABLED RagFail \/ \E text \in AnswerTexts : ENABLED RagSucceed(text)
      [] pc = "waiting" -> ENABLED RagTimeout
      [] pc = "append" -> ENABLED AppendResult
      [] pc = "format" -> ENABLED Format
      [] pc = "synth" -> ENABLED SynthesizeFail \/ \E text \in FinalTexts : ENABLED Synthesize(text)
      [] OTHER -> FALSE

\* C11: once decomposition has succeeded the final synthesis call is reached
\* whatever the answer capability does; it is made once, after every
\* sub-question has been processed, and no exception leaves the fan-out.
\* Reaching the call is stated as: until the call is made some step is
\* enabled, and every step strictly raises a bounded rank.
C11_SynthesisReachedOnce ==
    /\ [](/\ ChainCalls("final_rag_chain") <= 1
          /\ error \notin {"fanout", "append"}
          /\ ChainCalls("final_rag_chain") = 1 =>
                /\ NSub >= 1
                /\ Len(obtained) = NSub
                /\ \A n \in 1..NSub : CallIdx(n) # {}
                /\ context # Unbound
          /\ BeforeSynthesis => (CanStep /\ ChainCalls("final_rag_chain") = 0)
          /\ (pc \in {"done", "raised"} /\ error # "decompose") =>
                ChainCalls("final_rag_chain") = 1
          /\ LoopRank <= NSub + 4 * NSub)
    /\ [][\/ Stage' > Stage
          \/ Stage' = Stage /\ LoopRank' > LoopRank]_vars

\* C11, the same under fair scheduling: the synthesis call is eventually made.
C11_EventuallySynthesis ==
    (pc = "fallback") ~> (ChainCalls("final_rag_chain") = 1)

C11_Witness ==
    /\ ChainCalls("final_rag_chain") = 1
    /\ NSub = 2
    /\ FailedEveryAttempt(1)
    /\ FailedEveryAttempt(2)

\* C12: a failed decomposition call ends the run: the call was made once, and
\* no rag_agent call and no synthesis call is ever made.
C12_DecompositionFailurePropagates ==
    /\ ChainCalls("query_analyzer") <= 1
    /\ (\E j \in 1..Len(llm_calls) :
            llm_calls[j].chain = "query_analyzer" /\ ~llm_calls[j].ok) =>
          /\ pc = "raised"
          /\ error = "decompose"
          /\ ChainCalls("query_analyzer") = 1
          /\ ChainCalls("final_rag_chain") = 0
          /\ calls = << >>
          /\ final_response = Unbound

C12_Witness ==
    /\ pc = "raised"
    /\ error = "decompose"
    /\ llm_calls = <<[chain |-> "query_analyzer", ok |-> FALSE]>>

KnownNames == {"metadata", "data", "on_tool_start", "on_tool_end", "end", "error"}

ExpectedBranch(name) == IF name \in KnownNames THEN name ELSE "unrecognized"

\* The payloads of the data events among the first n events, in order.
RECURSIVE DataUpTo(_, _)
DataUpTo(evts, n) ==
    IF n = 0 THEN << >>
    ELSE IF evts[n].event = "data" THEN Append(DataUpTo(evts, n - 1), evts[n].data)
    ELSE DataUpTo(evts, n - 1)

\* The stream was opened and call_stream is over.
StreamOver == spc \in {"returned", "raised"}

\* A metadata event whose payload json.loads or info.get rejects.
BadMetadata(e) == e.event = "metadata" /\ e.data # "{}"

\* C18 as stated: every event of the stream is handled once, in arrival
\* order, by the branch of its name; process_partial_text gets every data
\* event and nothing else, also the data events after an end or error event.
C18_EveryEventHandled ==
    StreamOver =>
        /\ Len(handled) = Len(events)
        /\ \A n \in 1..Len(events) :
              /\ handled[n].n = n
              /\ handled[n].branch = ExpectedBranch(events[n].event)
        /\ emitted = DataUpTo(events, Len(events))

\* C18 as amended: the same, up to and including the first metadata event
\* whose payload is not a JSON object; there the exception leaves call_stream
\* and no later event is handled.
C18_HandledUntilBadMetadata ==
    /\ Len(handled) = pos
    /\ pos <= Len(events)
    /\ \A n \in 1..pos :
          /\ handled[n].n = n
          /\ handled[n].branch = ExpectedBranch(events[n].event)
          /\ handled[n].printed = ~BadMetadata(events[n])
    /\ emitted = DataUpTo(events, pos)
    /\ \A n \in 1..(pos - 1) : ~BadMetadata(events[n])
    /\ spc = "returned" =>
          /\ pos = Len(events)
          /\ \A n \in 1..Len(events) : ~BadMetadata(events[n])
    /\ spc = "raised" => (pos >= 1 /\ BadMetadata(events[pos]))
    /\ spc = "http_error" => pos = 0

C18_Witness ==
    /\ spc = "returned"
    /\ Len(events) = 3
    /\ events[1].event = "end"
    /\ events[2].event = "data"
    /\ events[3].event = "message"
    /\ emitted = <<events[2].data>>
    /\ handled[3].branch = "unrecognized"

====
